---- MODULE Spec2Model ----
(***************************************************************************)
(* Model of src/main/python/run_pfusion_regression.py: the fusion          *)
(* regression harness.  A run loads a YAML configuration, checks that the  *)
(* input run files exist, builds one fusion command per supported method,  *)
(* runs (or, in dry-run mode, only logs) them, and then evaluates every    *)
(* (method, topic set, metric) triple against its expected score.          *)
(*                                                                         *)
(* Python dicts are records whose DOMAIN is the set of keys present, so a  *)
(* missing key is a field that is absent.  A command token is the sequence *)
(* of its space-separated words, so that ' '.join is concatenation.        *)
(* Scores are integers in units of 10^-ScoreDigits.                        *)
(***************************************************************************)
EXTENDS Integers, Sequences, FiniteSets, TLC

VARIABLES
    pc,              \* position of the main script / of the caller of the builder
    config_file,     \* content of the configuration file, or NoFile
    existing,        \* the run files present on disk (os.path.exists)
    dry_run,         \* args.dry_run
    use_pyserini,    \* args.use_pyserini
    yaml_data,       \* the loaded configuration
    ri,              \* index of the run-file existence loop
    fusion_commands, \* the list construct_fusion_commands returned, once built
    ci,              \* index of the loop of run_fusion_commands
    call_result,     \* outcome of the last call() of run_fusion_commands
    pos,             \* index of the current triple of evaluate_and_verify
    failures,        \* the failures flag of evaluate_and_verify
    results,         \* the results dict of evaluate_and_verify
    last,            \* what evaluate_and_verify did with the last triple
    fail_logged,     \* a [FAIL] line has been logged
    spawns,          \* the command lines handed to call() / Popen(), in order
    rendered,        \* the command lines logged in dry-run mode, in order
    summaries,       \* the summary lines logged, in order
    uncaught,        \* the exception that ended the process, or None
    exit_status      \* the process exit status, or NoExit while running

vars == <<pc, config_file, existing, dry_run, use_pyserini, yaml_data, ri,
          fusion_commands, ci, call_result, pos, failures, results, last,
          fail_logged, spawns, rendered, summaries, uncaught, exit_status>>

----------------------------------------------------------------------------
(* Bounds of the model. *)

MaxMethods == 2
MaxTopics == 2
NumRuns == 2
ScoreDigits == 5

(* Program constants. *)

DefaultK == 1000
DefaultDepth == 1000
DefaultRrfK == 60
DefaultAlphaTenths == 5
RelTolInverse == 1000000000
AbsTol == 0

----------------------------------------------------------------------------
(* Python values. *)

None == "<None>"
NoFile == [nofile |-> TRUE]
Unbound == [unbound |-> TRUE]
NotBuilt == [built |-> FALSE, list |-> <<>>]
Built(cmds) == [built |-> TRUE, list |-> cmds]
NoExit == -1
EmptyDict == [x \in {} |-> {}]

Has(d, k) == k \in DOMAIN d

Get(d, k, default) == IF Has(d, k) THEN d[k] ELSE default

Abs(x) == IF x < 0 THEN -x ELSE x

Max2(x, y) == IF x >= y THEN x ELSE y

(* str() of the integer parameters a configuration can hold. *)
StrInt(n) ==
    CASE n = 10 -> "10"
      [] n = 60 -> "60"
      [] n = 100 -> "100"
      [] n = 1000 -> "1000"

(* str() of alpha, held in tenths. *)
StrAlpha(t) ==
    CASE t = 5 -> "0.5"
      [] t = 7 -> "0.7"

(* str() of a path or of None. *)
StrPath(p) == IF p = None THEN "None" ELSE p

Tok(s) == <<s>>

NoneTok == <<None>>

RECURSIVE Flatten(_)
Flatten(ss) == IF ss = <<>> THEN <<>> ELSE Head(ss) \o Flatten(Tail(ss))

(* ' '.join(tokens): raises TypeError when a token is not a string. *)
JoinRaises(tokens) == \E i \in 1..Len(tokens) : tokens[i] = NoneTok

Join(tokens) == Flatten(tokens)

----------------------------------------------------------------------------
(* construct_fusion_commands *)

ANSERINI_FUSE_COMMAND == <<"bin/run.sh", "io.anserini.fusion.FuseRuns">>

PYSERINI_FUSE_COMMAND == <<"python", "-m", "pyserini.fusion">>

Runtag(method_name) ==
    CASE method_name = "rrf" -> "pyserini.rrf"
      [] method_name = "average" -> "pyserini.average"
      [] method_name = "interpolation" -> "pyserini.interpolation"
      [] OTHER -> "pyserini.normalize"

builder_supported_with_normalize == {"rrf", "average", "interpolation", "normalize"}

builder_supported_methods == {"rrf", "average", "interpolation"}

BuilderSelected(method) == Get(method, "name", None) \in builder_supported_methods

builder_filtered_methods(data) == SelectSeq(data.methods, BuilderSelected)

RunFile(run) == run.file

RunsRaise(data) ==
    \/ ~Has(data, "runs")
    \/ \E i \in 1..Len(data.runs) : ~Has(data.runs[i], "file")

PyseriniExtra(method, method_name) ==
    IF method_name = "rrf"
    THEN <<Tok("--rrf.k"), Tok(StrInt(Get(method, "rrf_k", DefaultRrfK)))>>
    ELSE IF method_name = "interpolation"
    THEN <<Tok("--alpha"), Tok(StrAlpha(Get(method, "alpha", DefaultAlphaTenths)))>>
    ELSE <<>>

PyseriniCommand(method, run_files) ==
    LET method_name == Get(method, "name", "average")
        output_file == Get(method, "output", None)
    IN  <<PYSERINI_FUSE_COMMAND, Tok("--method"), Tok(method_name), Tok("--runs")>>
        \o [i \in 1..Len(run_files) |-> Tok(run_files[i])]
        \o <<Tok("--output"), Tok(output_file),
             Tok("--runtag"), Tok(Runtag(method_name)),
             Tok("--k"), Tok(StrInt(Get(method, "k", DefaultK))),
             Tok("--depth"), Tok(StrInt(Get(method, "depth", DefaultDepth)))>>
        \o PyseriniExtra(method, method_name)

AnseriniCommand(method, run_files) ==
    LET method_name == Get(method, "name", "average")
        output_file == Get(method, "output", None)
    IN  <<ANSERINI_FUSE_COMMAND,
          Tok("-runs"), run_files,
          Tok("-output"), Tok(output_file),
          Tok("-method"), Tok(method_name),
          Tok("-k"), Tok(StrInt(Get(method, "k", DefaultK))),
          Tok("-depth"), Tok(StrInt(Get(method, "depth", DefaultDepth))),
          Tok("-rrf_k"), Tok(StrInt(Get(method, "rrf_k", DefaultRrfK))),
          Tok("-alpha"), Tok(StrAlpha(Get(method, "alpha", DefaultAlphaTenths)))>>

(* The result is [raised, commands]: raised is "KeyError" when a subscript *)
(* of the function fails, and then there is no command list.               *)
construct_fusion_commands(data, pyserini) ==
    IF ~Has(data, "methods")
    THEN [raised |-> "KeyError", commands |-> <<>>]
    ELSE LET filtered == builder_filtered_methods(data)
         IN  IF filtered # <<>> /\ RunsRaise(data)
             THEN [raised |-> "KeyError", commands |-> <<>>]
             ELSE LET run_files == IF filtered = <<>> THEN <<>>
                                   ELSE [i \in 1..Len(data.runs) |-> RunFile(data.runs[i])]
                      Command(method) ==
                          IF pyserini THEN PyseriniCommand(method, run_files)
                          ELSE AnseriniCommand(method, run_files)
                  IN  [raised |-> "none",
                       commands |-> [i \in 1..Len(filtered) |-> Command(filtered[i])]]

----------------------------------------------------------------------------
(* Numbers: is_close, round, float. *)

(* is_close(a, b) with the default rel_tol = 1/RelTolInverse and abs_tol.   *)
(* For integers d and m, d <= m / RelTolInverse iff d <= m \div RelTolInverse. *)
is_close(a, b) ==
    Abs(a - b) <= Max2(Max2(Abs(a), Abs(b)) \div RelTolInverse, AbsTol)

(* round(x, ndigits): the nearest multiple of 10^-ndigits, ties to even.   *)
(* (On floats a decimal tie is decided by the binary value; the scores the *)
(* model draws hold no tie.)                                               *)
Round(x, ndigits) ==
    LET u == IF ndigits >= ScoreDigits THEN 1 ELSE 10 ^ (ScoreDigits - ndigits)
        q == x \div u
        r == x % u
    IN  IF 2 * r < u THEN q * u
        ELSE IF 2 * r > u THEN (q + 1) * u
        ELSE IF q % 2 = 0 THEN q * u ELSE (q + 1) * u

(* n hundred-thousandths, in score units. *)
Score(n) == n * 10 ^ (ScoreDigits - 5)

ScoreTexts == {"0.3000", "0.41234", "0.5000"}

(* float(text) of the decimal texts an evaluator prints. *)
FloatOf(text) ==
    CASE text = "0.3000" -> Score(30000)
      [] text = "0.41234" -> Score(41234)
      [] text = "0.5000" -> Score(50000)

PassesWithoutOverride(expected, actual) == is_close(expected, actual)

(* The pass rule of evaluate_and_verify. *)
Passes(expected, actual) == is_close(expected, actual) \/ actual > expected

----------------------------------------------------------------------------
(* Text: a line is a sequence of items; " " and "\t" are whitespace. *)

Whitespace == {" ", "\t"}

RECURSIVE LStrip(_)
LStrip(line) ==
    IF line # <<>> /\ Head(line) \in Whitespace THEN LStrip(Tail(line)) ELSE line

RECURSIVE RStrip(_)
RStrip(line) ==
    IF line # <<>> /\ line[Len(line)] \in Whitespace
    THEN RStrip(SubSeq(line, 1, Len(line) - 1))
    ELSE line

Strip(line) == RStrip(LStrip(line))

RECURSIVE Split(_, _)
Split(line, sep) ==
    IF \E i \in 1..Len(line) : line[i] = sep
    THEN LET i == CHOOSE j \in 1..Len(line) :
                     line[j] = sep /\ \A h \in 1..(j - 1) : line[h] # sep
         IN  <<SubSeq(line, 1, i - 1)>> \o Split(SubSeq(line, i + 1, Len(line)), sep)
    ELSE <<line>>

(* float(field) raises ValueError unless the stripped field is one number. *)
IsFloat(field) == Len(Strip(field)) = 1 /\ Strip(field)[1] \in ScoreTexts

NonBlank(line) == Strip(line) # <<>>

----------------------------------------------------------------------------
(* check_output and the evaluation of one triple. *)

(* What a spawned process does: Popen raises, or the process exits with a *)
(* return code after writing stdout (a sequence of lines).                *)
ProcResult(raised, returncode, stdout) ==
    [raised |-> raised, returncode |-> returncode, stdout |-> stdout]

check_output(proc) ==
    IF proc.raised THEN [exc |-> "OSError", output |-> <<>>]
    ELSE IF proc.returncode = 0 THEN [exc |-> "none", output |-> proc.stdout]
    ELSE [exc |-> "RuntimeError", output |-> <<>>]

eval_supported_methods == {"rrf", "average", "interpolation", "normalize"}

EvalSelected(method) == Get(method, "name", None) \in eval_supported_methods

eval_filtered_methods(data) == SelectSeq(data.methods, EvalSelected)

NumTriples(data) ==
    Len(eval_filtered_methods(data)) * Len(data.topics) * Len(data.metrics)

(* The triple at position p of the loop nest: methods outermost, metrics innermost. *)
TripleAt(data, p) ==
    LET K == Len(data.metrics)
        T == Len(data.topics)
    IN  [m |-> ((p - 1) \div (K * T)) + 1,
         t |-> (((p - 1) \div K) % T) + 1,
         k |-> ((p - 1) % K) + 1]

QrelPath(qrel) ==
    CASE qrel = "qrels.dl19.txt" -> "tools/topics-and-qrels/qrels.dl19.txt"
      [] qrel = "qrels.dl20.txt" -> "tools/topics-and-qrels/qrels.dl20.txt"
      [] qrel = "qrels.dl21.txt" -> "tools/topics-and-qrels/qrels.dl21.txt"
      [] qrel = "qrels.dl22.txt" -> "tools/topics-and-qrels/qrels.dl22.txt"

eval_cmd(method, topic_set, metric) ==
    <<Tok(metric.command),
      IF Has(metric, "params") THEN metric.params ELSE <<>>,
      IF Has(topic_set, "qrel") THEN Tok(QrelPath(topic_set.qrel)) ELSE <<>>,
      Tok(StrPath(Get(method, "output", None)))>>

NoTriple ==
    [outcome |-> "none", exception |-> None, logged_error |-> FALSE,
     verdict |-> None, expected |-> 0, actual |-> 0, at |-> 0]

(* What lines 207-228 do with one triple, given what the evaluator process *)
(* did: "error" (caught and logged), "blank" (line 211, which no output    *)
(* reaches, blank lines being filtered at line 209), "crash" (an exception *)
(* outside the try), or "scored".                                          *)
EvalOutcome(method, t, metric, proc) ==
    LET co == check_output(proc)
        lines == SelectSeq(co.output, NonBlank)
        out == lines[Len(lines)]
        fields == Split(Strip(out), metric.separator)
        eval_out == fields[metric.parse_index + 1]
        expected == Round(method.results[metric.metric][t], metric.metric_precision)
        actual == Round(FloatOf(Strip(eval_out)[1]), metric.metric_precision)
        base == [NoTriple EXCEPT !.outcome = "error", !.logged_error = TRUE]
    IN  IF co.exc # "none" THEN [base EXCEPT !.exception = co.exc]
        ELSE IF lines = <<>> THEN [base EXCEPT !.exception = "IndexError"]
        ELSE IF Strip(out) = <<>> THEN [NoTriple EXCEPT !.outcome = "blank"]
        ELSE IF metric.parse_index + 1 > Len(fields)
        THEN [NoTriple EXCEPT !.outcome = "crash", !.exception = "IndexError"]
        ELSE IF ~IsFloat(eval_out)
        THEN [NoTriple EXCEPT !.outcome = "crash", !.exception = "ValueError",
                              !.expected = expected]
        ELSE [NoTriple EXCEPT !.outcome = "scored", !.expected = expected,
                              !.actual = actual,
                              !.verdict = IF Passes(expected, actual) THEN "OK" ELSE "FAIL"]

(* results[method["name"]][metric["metric"]] = actual *)
StoreResult(res, name, metric, actual) ==
    LET inner == IF Has(res, name) THEN res[name] ELSE EmptyDict
    IN  [n \in (DOMAIN res) \cup {name} |->
            IF n = name
            THEN [m \in (DOMAIN inner) \cup {metric} |->
                     IF m = metric THEN actual ELSE inner[m]]
            ELSE res[n]]

----------------------------------------------------------------------------
(* Configurations. *)

RunName(i) == <<"runs/run.a.txt", "runs/run.b.txt", "runs/run.c.txt", "runs/run.d.txt">>[i]

RunNames == {RunName(i) : i \in 1..NumRuns}

WellFormedRuns == [i \in 1..NumRuns |-> [file |-> RunName(i)]]

(* The last run lacks its 'file' key. *)
RunsWithoutFile ==
    [i \in 1..NumRuns |-> IF i = NumRuns THEN [dependency |-> "regression"]
                          ELSE [file |-> RunName(i)]]

Topic(i) ==
    [id |-> <<"dl19", "dl20", "dl21", "dl22">>[i],
     qrel |-> <<"qrels.dl19.txt", "qrels.dl20.txt", "qrels.dl21.txt", "qrels.dl22.txt">>[i]]

TopicLists == {[i \in 1..n |-> Topic(i)] : n \in 1..MaxTopics}

NDCG ==
    [metric |-> "nDCG@10", command |-> "bin/trec_eval",
     params |-> <<"-c", "-m", "ndcg_cut.10">>,
     separator |-> "\t", parse_index |-> 2, metric_precision |-> 4]

Recall ==
    [metric |-> "R@100", command |-> "bin/trec_eval",
     params |-> <<"-c", "-m", "recall.100">>,
     separator |-> "\t", parse_index |-> 2, metric_precision |-> 4]

(* Expected scores, one per topic set, by position. *)
ExpectedScores == [i \in 1..MaxTopics |-> IF i % 2 = 1 THEN Score(41230) ELSE Score(29996)]

ExpectedResults == [m \in {"nDCG@10", "R@100"} |-> ExpectedScores]

MethodNames == {"rrf", "average", "interpolation", "normalize", "bm25"}

NameParts == {[name |-> n] : n \in MethodNames} \cup {EmptyDict}

OtherParts ==
    { EmptyDict,
      [output |-> "runs/fused.a.txt"],
      [output |-> "runs/fused.b.txt", k |-> 100, depth |-> 100, rrf_k |-> 10, alpha |-> 7] }

(* Every method entry the builder is applied to. *)
AllMethodSpecs ==
    {n @@ o @@ [results |-> ExpectedResults] : n \in NameParts, o \in OtherParts}

SeqsUpTo(S, n) == UNION {[1..k -> S] : k \in 0..n}

BuilderConfigs ==
    LET rest == [topics |-> [i \in 1..1 |-> Topic(i)], metrics |-> <<NDCG>>]
    IN  {[runs |-> r, methods |-> ms] @@ rest :
            r \in {WellFormedRuns, RunsWithoutFile}, ms \in SeqsUpTo(AllMethodSpecs, MaxMethods)}
        \cup {[methods |-> ms] @@ rest : ms \in SeqsUpTo(AllMethodSpecs, MaxMethods)}
        \cup {[runs |-> WellFormedRuns] @@ rest}

----------------------------------------------------------------------------
(* The builder as a pure function: a caller applies it to a configuration. *)

InitIdle ==
    /\ config_file = NoFile
    /\ existing = {}
    /\ dry_run = FALSE
    /\ ri = 1
    /\ ci = 1
    /\ call_result = None
    /\ pos = 1
    /\ failures = FALSE
    /\ results = EmptyDict
    /\ last = NoTriple
    /\ fail_logged = FALSE
    /\ spawns = <<>>
    /\ rendered = <<>>
    /\ summaries = <<>>
    /\ uncaught = None
    /\ exit_status = NoExit

BuilderInit ==
    /\ pc = "call"
    /\ yaml_data \in BuilderConfigs
    /\ use_pyserini \in BOOLEAN
    /\ fusion_commands = NotBuilt
    /\ InitIdle

CallReturns ==
    /\ pc = "call"
    /\ construct_fusion_commands(yaml_data, use_pyserini).raised = "none"
    /\ fusion_commands' = Built(construct_fusion_commands(yaml_data, use_pyserini).commands)
    /\ pc' = "returned"
    /\ UNCHANGED <<config_file, existing, dry_run, use_pyserini, yaml_data, ri, ci,
                   call_result, pos, failures, results, last, fail_logged, spawns,
                   rendered, summaries, uncaught, exit_status>>

CallRaises ==
    /\ pc = "call"
    /\ construct_fusion_commands(yaml_data, use_pyserini).raised # "none"
    /\ pc' = "raised"
    /\ UNCHANGED <<config_file, existing, dry_run, use_pyserini, yaml_data, ri,
                   fusion_commands, ci, call_result, pos, failures, results, last,
                   fail_logged, spawns, rendered, summaries, uncaught, exit_status>>

BuilderNext == CallReturns \/ CallRaises

BuilderSpec == BuilderInit /\ [][BuilderNext]_vars

----------------------------------------------------------------------------
(* The inputs of a run of the script. *)

Results == [results |-> ExpectedResults]

RrfMethod == [name |-> "rrf", output |-> "runs/fused.rrf.txt", rrf_k |-> 10] @@ Results

NormalizeMethod == [name |-> "normalize", output |-> "runs/fused.normalize.txt"] @@ Results

AverageWithoutOutput == [name |-> "average"] @@ Results

MethodWithoutName == [output |-> "runs/fused.unnamed.txt"] @@ Results

MethodSpecs == {RrfMethod, NormalizeMethod, AverageWithoutOutput, MethodWithoutName}

(* Up to MaxMethods methods under one metric; one method under two metrics; *)
(* and configurations that lack 'runs', a run's 'file', or 'methods'.        *)
Configs ==
    {[runs |-> WellFormedRuns, methods |-> ms, topics |-> ts, metrics |-> <<NDCG>>] :
        ms \in SeqsUpTo(MethodSpecs, MaxMethods), ts \in TopicLists}
    \cup {[runs |-> WellFormedRuns, methods |-> <<m>>, topics |-> ts,
           metrics |-> <<NDCG, Recall>>] : m \in MethodSpecs, ts \in TopicLists}
    \cup {[methods |-> <<RrfMethod>>, topics |-> <<Topic(1)>>, metrics |-> <<NDCG>>],
          [runs |-> RunsWithoutFile, methods |-> <<RrfMethod>>, topics |-> <<Topic(1)>>,
           metrics |-> <<NDCG>>],
          [runs |-> WellFormedRuns, topics |-> <<Topic(1)>>, metrics |-> <<NDCG>>]}

(* All run files are on disk, or all but one. *)
Disks == {RunNames} \cup {RunNames \ {f} : f \in RunNames}

ScoreLine(text) == <<"ndcg_cut_10", " ", " ", "\t", "all", "\t", text>>

BlankLine == <<" ">>

EvalOutputs ==
    {<<>>, <<BlankLine>>}
    \cup {<<ScoreLine("0.3000"), BlankLine>>, <<ScoreLine("0.41234")>>,
          <<ScoreLine("0.3000"), ScoreLine("0.5000"), BlankLine, BlankLine>>,
          <<<<"Usage:", " ", "trec_eval">>>>,
          <<ScoreLine("n/a")>>}

ProcResults ==
    {ProcResult(TRUE, 0, <<>>), ProcResult(FALSE, 1, <<>>)}
    \cup {ProcResult(FALSE, 0, o) : o \in EvalOutputs}

(* call(cmd, shell=True): returns 0, returns non-zero, or raises. *)
CallResults == {"0", "1", "raised"}

Init ==
    /\ pc = "load"
    /\ config_file \in {NoFile} \cup Configs
    /\ existing \in Disks
    /\ dry_run \in BOOLEAN
    /\ use_pyserini \in BOOLEAN
    /\ yaml_data = Unbound
    /\ fusion_commands = NotBuilt
    /\ ri = 1
    /\ ci = 1
    /\ call_result = None
    /\ pos = 1
    /\ failures = FALSE
    /\ results = EmptyDict
    /\ last = NoTriple
    /\ fail_logged = FALSE
    /\ spawns = <<>>
    /\ rendered = <<>>
    /\ summaries = <<>>
    /\ uncaught = None
    /\ exit_status = NoExit

----------------------------------------------------------------------------
(* __main__ *)

(* An uncaught exception ends the process with status 1. *)
Crash(exception) ==
    /\ pc' = "crashed"
    /\ uncaught' = exception
    /\ exit_status' = 1

(* exit(1) *)
Exit1 ==
    /\ pc' = "exited"
    /\ exit_status' = 1
    /\ UNCHANGED uncaught

(* Lines 268-273. *)
LoadConfig ==
    /\ pc = "load"
    /\ IF config_file = NoFile
       THEN Exit1 /\ UNCHANGED yaml_data
       ELSE /\ yaml_data' = config_file
            /\ pc' = "check_runs"
            /\ UNCHANGED <<uncaught, exit_status>>
    /\ UNCHANGED <<config_file, existing, dry_run, use_pyserini, ri, fusion_commands,
                   ci, call_result, pos, failures, results, last, fail_logged, spawns,
                   rendered, summaries>>

RunFileMissingNever(run) == FALSE

RunFileMissing(run) == run.file \notin existing

(* Lines 276-279, one iteration; the loop's end leads to line 288. *)
CheckRunFile ==
    /\ pc = "check_runs"
    /\ IF ~Has(yaml_data, "runs") THEN Crash("KeyError") /\ UNCHANGED ri
       ELSE IF ri > Len(yaml_data.runs)
       THEN pc' = "construct" /\ UNCHANGED <<ri, uncaught, exit_status>>
       ELSE IF ~Has(yaml_data.runs[ri], "file") THEN Crash("KeyError") /\ UNCHANGED ri
       ELSE IF RunFileMissing(yaml_data.runs[ri]) THEN Exit1 /\ UNCHANGED ri
       ELSE ri' = ri + 1 /\ UNCHANGED <<pc, uncaught, exit_status>>
    /\ UNCHANGED <<config_file, existing, dry_run, use_pyserini, yaml_data,
                   fusion_commands, ci, call_result, pos, failures, results, last,
                   fail_logged, spawns, rendered, summaries>>

FusionPhaseAlwaysRuns(dry) == "run_fusion"

(* Lines 291-294. *)
FusionPhase(dry) == IF dry THEN "log_fusion" ELSE "run_fusion"

(* Line 288. *)
Construct ==
    /\ pc = "construct"
    /\ LET r == construct_fusion_commands(yaml_data, use_pyserini)
       IN  IF r.raised # "none"
           THEN Crash(r.raised) /\ UNCHANGED fusion_commands
           ELSE /\ fusion_commands' = Built(r.commands)
                /\ pc' = FusionPhase(dry_run)
                /\ UNCHANGED <<uncaught, exit_status>>
    /\ UNCHANGED <<config_file, existing, dry_run, use_pyserini, yaml_data, ri, ci,
                   call_result, pos, failures, results, last, fail_logged, spawns,
                   rendered, summaries>>

(* Line 292: all tokens of all commands joined into one logged line. *)
LogFusionCommands ==
    /\ pc = "log_fusion"
    /\ LET tokens == Flatten(fusion_commands.list)
       IN  IF JoinRaises(tokens)
           THEN Crash("TypeError") /\ UNCHANGED rendered
           ELSE /\ rendered' = Append(rendered, Join(tokens))
                /\ pc' = "evaluate"
                /\ UNCHANGED <<uncaught, exit_status>>
    /\ UNCHANGED <<config_file, existing, dry_run, use_pyserini, yaml_data, ri,
                   fusion_commands, ci, call_result, pos, failures, results, last,
                   fail_logged, spawns, summaries>>

----------------------------------------------------------------------------
(* run_fusion_commands, one iteration of its loop per step. *)

(* Line 133 is outside the try: a token that is no string ends the process. *)
FusionRenderRaises ==
    /\ pc = "run_fusion"
    /\ ci <= Len(fusion_commands.list)
    /\ JoinRaises(fusion_commands.list[ci])
    /\ Crash("TypeError")
    /\ UNCHANGED <<config_file, existing, dry_run, use_pyserini, yaml_data, ri,
                   fusion_commands, ci, call_result, pos, failures, results, last,
                   fail_logged, spawns, rendered, summaries>>

(* Lines 133-140: a non-zero return code and an exception are only logged. *)
FusionCall ==
    /\ pc = "run_fusion"
    /\ ci <= Len(fusion_commands.list)
    /\ ~JoinRaises(fusion_commands.list[ci])
    /\ \E r \in CallResults : call_result' = r
    /\ spawns' = Append(spawns, Join(fusion_commands.list[ci]))
    /\ ci' = ci + 1
    /\ UNCHANGED <<pc, config_file, existing, dry_run, use_pyserini, yaml_data, ri,
                   fusion_commands, pos, failures, results, last, fail_logged,
                   rendered, summaries, uncaught, exit_status>>

FusionReturn ==
    /\ pc = "run_fusion"
    /\ ci > Len(fusion_commands.list)
    /\ call_result' = None
    /\ pc' = "evaluate"
    /\ UNCHANGED <<config_file, existing, dry_run, use_pyserini, yaml_data, ri,
                   fusion_commands, ci, pos, failures, results, last, fail_logged,
                   spawns, rendered, summaries, uncaught, exit_status>>

----------------------------------------------------------------------------
(* evaluate_and_verify, one triple per step. *)

CurrentMethod == eval_filtered_methods(yaml_data)[TripleAt(yaml_data, pos).m]

CurrentTopic == yaml_data.topics[TripleAt(yaml_data, pos).t]

CurrentMetric == yaml_data.metrics[TripleAt(yaml_data, pos).k]

CurrentCommand == Join(eval_cmd(CurrentMethod, CurrentTopic, CurrentMetric))

AtTriple == pc = "evaluate" /\ pos <= NumTriples(yaml_data)

(* Lines 203-205. *)
EvalDryRun ==
    /\ AtTriple
    /\ dry_run
    /\ rendered' = Append(rendered, CurrentCommand)
    /\ last' = [NoTriple EXCEPT !.outcome = "dry", !.at = pos]
    /\ pos' = pos + 1
    /\ UNCHANGED <<pc, config_file, existing, dry_run, use_pyserini, yaml_data, ri,
                   fusion_commands, ci, call_result, failures, results, fail_logged,
                   spawns, summaries, uncaught, exit_status>>

(* Lines 207-231 for one evaluator process. *)
EvalRun(proc) ==
    LET o == [EvalOutcome(CurrentMethod, TripleAt(yaml_data, pos).t, CurrentMetric, proc)
                 EXCEPT !.at = pos]
    IN  /\ AtTriple
        /\ ~dry_run
        /\ spawns' = Append(spawns, CurrentCommand)
        /\ last' = o
        /\ CASE o.outcome = "crash" ->
                  /\ Crash(o.exception)
                  /\ UNCHANGED <<pos, failures, results, fail_logged>>
             [] o.outcome = "scored" ->
                  /\ failures' = (failures \/ o.verdict = "FAIL")
                  /\ fail_logged' = (fail_logged \/ o.verdict = "FAIL")
                  /\ results' = StoreResult(results, CurrentMethod.name,
                                            CurrentMetric.metric, o.actual)
                  /\ pos' = pos + 1
                  /\ UNCHANGED <<pc, uncaught, exit_status>>
             [] OTHER ->
                  /\ pos' = pos + 1
                  /\ UNCHANGED <<pc, failures, results, fail_logged, uncaught, exit_status>>
        /\ UNCHANGED <<config_file, existing, dry_run, use_pyserini, yaml_data, ri,
                       fusion_commands, ci, call_result, rendered, summaries>>

EvalTriple == \E proc \in ProcResults : EvalRun(proc)

(* Lines 233-238, then line 299 and the end of the script. *)
Summarise ==
    /\ pc = "evaluate"
    /\ pos > NumTriples(yaml_data)
    /\ summaries' = Append(summaries, IF failures THEN "fail" ELSE "ok")
    /\ pc' = "done"
    /\ exit_status' = 0
    /\ UNCHANGED <<config_file, existing, dry_run, use_pyserini, yaml_data, ri,
                   fusion_commands, ci, call_result, pos, failures, results, last,
                   fail_logged, spawns, rendered, uncaught>>

Next ==
    \/ LoadConfig
    \/ CheckRunFile
    \/ Construct
    \/ LogFusionCommands
    \/ FusionRenderRaises
    \/ FusionCall
    \/ FusionReturn
    \/ EvalDryRun
    \/ EvalTriple
    \/ Summarise

Spec == Init /\ [][Next]_vars

----------------------------------------------------------------------------
(* Vocabulary of the properties. *)

Terminated == pc \in {"done", "exited", "crashed"}

(* The process ended inside or after the loop of evaluate_and_verify. *)
EvaluationEnded == pc = "done" \/ (pc = "crashed" /\ last.outcome = "crash")

IsEvalCommand(line) == line[1] = "bin/trec_eval"

(* The word that follows an output flag of a command line, if any. *)
OutputsOf(line) ==
    {line[h + 1] : h \in {i \in 1..(Len(line) - 1) : line[i] \in {"-output", "--output"}}}

MethodsOf(line) ==
    {line[h + 1] : h \in {i \in 1..(Len(line) - 1) : line[i] \in {"-method", "--method"}}}

Contains(line, sub) ==
    \E i \in 0..(Len(line) - Len(sub)) : SubSeq(line, i + 1, i + Len(sub)) = sub

NumRecords(res) == Cardinality({<<n, m>> \in (DOMAIN res) \X {"nDCG@10", "R@100"} : m \in DOMAIN res[n]})

----------------------------------------------------------------------------
(* C1: whatever the evaluator does for each triple (success, non-zero exit, *)
(* empty output, unparseable output), evaluate_and_verify processes every   *)
(* triple, and only then logs the summary, exactly once: the failure line   *)
(* iff some triple was logged FAIL, the success line otherwise.             *)
C1_AllTriplesThenOneSummary ==
    /\ pc = "evaluate" => summaries = <<>>
    /\ EvaluationEnded =>
          /\ pos = NumTriples(yaml_data) + 1
          /\ Len(summaries) = 1
          /\ summaries[1] = "fail" <=> fail_logged

(* C2: a scored triple carries the expected score rounded to the metric's   *)
(* precision, and is OK iff the rounded actual is within the relative       *)
(* tolerance 1e-9 of the rounded expected or greater than it; otherwise it  *)
(* is FAIL and the failure flag is set.                                     *)
C2_PassRule ==
    last.outcome = "scored" =>
        LET e == last.expected
            a == last.actual
            tr == TripleAt(yaml_data, last.at)
            metric == yaml_data.metrics[tr.k]
            raw == eval_filtered_methods(yaml_data)[tr.m].results[metric.metric][tr.t]
            unit == 10 ^ (ScoreDigits - metric.metric_precision)
            d == IF e >= a THEN e - a ELSE a - e
            m == IF (IF e < 0 THEN -e ELSE e) >= (IF a < 0 THEN -a ELSE a)
                 THEN (IF e < 0 THEN -e ELSE e) ELSE (IF a < 0 THEN -a ELSE a)
            ok == d <= m \div 1000000000 \/ a > e
        IN  /\ e % unit = 0 /\ a % unit = 0
            /\ 2 * (e - raw) <= unit /\ 2 * (raw - e) <= unit
            /\ last.verdict = (IF ok THEN "OK" ELSE "FAIL")
            /\ last.verdict = "FAIL" => failures /\ fail_logged

(* An earlier triple failed and the last one passes by being an improvement. *)
C2_Witness ==
    /\ last.outcome = "scored"
    /\ last.verdict = "OK"
    /\ last.actual > last.expected
    /\ failures

(* C3: when the configuration file is missing, or a run file listed in the  *)
(* configuration is not on disk, the process never gets past the pre-flight *)
(* checks: no command is built, rendered or run, a step is always enabled  *)
(* until the process ends, and it ends with status 1.                      *)
C3_PreflightAbort ==
    LET run_file_missing ==
            /\ config_file # NoFile
            /\ Has(config_file, "runs")
            /\ \E i \in 1..Len(config_file.runs) :
                  /\ Has(config_file.runs[i], "file")
                  /\ config_file.runs[i].file \notin existing
    IN  (config_file = NoFile \/ run_file_missing) =>
            /\ pc \in {"load", "check_runs", "exited", "crashed"}
            /\ ~fusion_commands.built
            /\ spawns = <<>>
            /\ rendered = <<>>
            /\ Terminated => exit_status = 1
            /\ ~Terminated => ENABLED Next

C3_Witness ==
    /\ pc = "exited"
    /\ exit_status = 1
    /\ config_file # NoFile
    /\ ri = 2
    /\ config_file.runs[2].file \notin existing

(* C4: in dry-run mode no process is ever spawned: run_fusion_commands is   *)
(* not entered, the fusion commands are logged as one line, each triple's   *)
(* evaluation command is logged, no verdict is computed and the failure     *)
(* flag stays false.                                                        *)
C4_DryRunSpawnsNothing ==
    dry_run =>
        /\ spawns = <<>>
        /\ pc # "run_fusion"
        /\ call_result = None
        /\ ~failures /\ ~fail_logged
        /\ results = EmptyDict
        /\ last.outcome \in {"none", "dry"}
        /\ pc \in {"evaluate", "done"} =>
              /\ Len(rendered) = pos
              /\ rendered[1] = Flatten(Flatten(fusion_commands.list))
              /\ \A p \in 1..(pos - 1) :
                    LET tr == TripleAt(yaml_data, p)
                    IN  rendered[p + 1] =
                            Flatten(eval_cmd(eval_filtered_methods(yaml_data)[tr.m],
                                             yaml_data.topics[tr.t],
                                             yaml_data.metrics[tr.k]))
        /\ pc = "done" => pos = NumTriples(yaml_data) + 1

C4_Witness ==
    /\ dry_run
    /\ pc = "done"
    /\ fusion_commands.list # <<>>
    /\ Len(rendered) >= 3

(* C5: in execute mode every command of the batch is attempted once, in     *)
(* list order; a command that fails, or that raises while it is rendered or *)
(* spawned, stops neither the later commands nor the evaluation phase.      *)
C5_EveryInvocationAttempted ==
    (~dry_run /\ fusion_commands.built) =>
        /\ pc # "log_fusion"
        /\ pc = "crashed" => last.outcome = "crash"
        /\ pc \in {"evaluate", "done", "crashed"} =>
              /\ Len(spawns) >= Len(fusion_commands.list)
              /\ \A i \in 1..Len(fusion_commands.list) :
                    spawns[i] = Flatten(fusion_commands.list[i])

(* C6: a triple whose evaluator fails, or whose output gives no parseable   *)
(* score, is logged and skipped: the failure flag and the results are left  *)
(* alone and the loop goes on to the next triple.                           *)
C6_UnscoredTripleSkipped ==
    [][(pc = "evaluate" /\ ~dry_run /\ last'.at = pos /\ last'.outcome # "scored") =>
          /\ last'.logged_error
          /\ failures' = failures
          /\ results' = results
          /\ pos' = pos + 1
          /\ pc' = "evaluate"]_vars

----------------------------------------------------------------------------
(* Properties of construct_fusion_commands as a function. *)

FusedNames == {"rrf", "average", "interpolation"}

SupportedIndices(data) ==
    {i \in 1..Len(data.methods) :
        Has(data.methods[i], "name") /\ data.methods[i].name \in FusedNames}

Nth(S, j) == CHOOSE i \in S : Cardinality({h \in S : h < i}) = j - 1

WellFormed(data) ==
    /\ Has(data, "runs")
    /\ Has(data, "methods")
    /\ \A i \in 1..Len(data.runs) : Has(data.runs[i], "file")
    /\ \A i \in 1..Len(data.methods) :
          Has(data.methods[i], "name") /\ Has(data.methods[i], "output")

C7_Returned ==
    LET S == SupportedIndices(yaml_data)
        files == [i \in 1..Len(yaml_data.runs) |-> yaml_data.runs[i].file]
    IN  /\ Len(fusion_commands.list) = Cardinality(S)
        /\ \A j \in 1..Len(fusion_commands.list) :
              LET method == yaml_data.methods[Nth(S, j)]
                  line == Flatten(fusion_commands.list[j])
              IN  /\ MethodsOf(line) = {method.name}
                  /\ Has(method, "output") => OutputsOf(line) = {method.output}
                  /\ Contains(line, files)
                  /\ line[1] = (IF use_pyserini THEN "python" ELSE "bin/run.sh")

(* C7: for either backend the builder returns one command for each method   *)
(* named rrf, average or interpolation, in configuration order, carrying    *)
(* the method's name and output path and all the run files; none for        *)
(* normalize or any other name; and it leaves the configuration as it was.  *)
C7_OneCommandPerSupportedMethod ==
    [][pc = "call" =>
          /\ WellFormed(yaml_data) => pc' = "returned"
          /\ pc' = "returned" => (yaml_data' = yaml_data /\ C7_Returned')]_vars

C7_Witness ==
    /\ pc = "returned"
    /\ use_pyserini
    /\ Len(yaml_data.methods) = 2
    /\ Get(yaml_data.methods[1], "name", None) = "normalize"
    /\ Get(yaml_data.methods[2], "name", None) = "interpolation"
    /\ Has(yaml_data.methods[2], "output")
    /\ Len(fusion_commands.list) = 1

(* C8: a configuration that lacks 'runs', 'methods', a run's 'file', or a   *)
(* method's 'name' or 'output' makes the builder fail: it never returns a   *)
(* command list for it, and never a command with a missing token.           *)
C8_MalformedConfigFailsFast ==
    pc = "returned" =>
        /\ WellFormed(yaml_data)
        /\ \A j \in 1..Len(fusion_commands.list) : ~JoinRaises(fusion_commands.list[j])

----------------------------------------------------------------------------
(* C9: the verdict collection is append-only and keyed by the whole triple: *)
(* a record, once written, is never overwritten or removed, and every       *)
(* scored triple adds a record of its own.                                  *)
C9_VerdictsAppendOnly ==
    [][/\ \A n \in DOMAIN results :
             /\ n \in DOMAIN results'
             /\ \A m \in DOMAIN results[n] :
                   m \in DOMAIN results'[n] /\ results'[n][m] = results[n][m]
       /\ (last'.at = pos /\ last'.outcome = "scored") =>
             NumRecords(results') = NumRecords(results) + 1]_vars

(* C10: in execute mode every evaluation command is preceded by a fusion    *)
(* command that writes the file it evaluates.                               *)
C10_EvaluatedMethodsWereFused ==
    ~dry_run =>
        \A i \in 1..Len(spawns) :
            IsEvalCommand(spawns[i]) =>
                \E j \in 1..(i - 1) :
                    /\ ~IsEvalCommand(spawns[j])
                    /\ spawns[i][Len(spawns[i])] \in OutputsOf(spawns[j])

====
